---- MODULE Spec2Model ----
(***************************************************************************)
(* A model of src/src/main.rs: the windmill of spinning vanes.             *)
(*                                                                         *)
(* Numbers.  The program computes in f32.  Here an f32 value x is the      *)
(* integer nearest to x * SCALE (fixed point, four decimal digits), and    *)
(* every f32 operation rounds its result to the nearest representable      *)
(* value, as the hardware does.  cos, sin and sqrt are computed (series,   *)
(* integer root), not tabulated.                                           *)
(*                                                                         *)
(* Range.  The integers are those of 32 bits, so the model has a value     *)
(* only for |x| below 200000 (f32 reaches 3.4e38), and it resolves 1e-4    *)
(* where f32 resolves 24 bits of whatever magnitude.  Where the program    *)
(* depends on that relative precision (the squares under a square root,    *)
(* the inverse of a length) the model keeps the intermediate value exactly *)
(* or with a decimal exponent, and rounds the final result to the grid.    *)
(* A length or a square root has a value for every argument of the model.  *)
(***************************************************************************)
EXTENDS Integers, Sequences, FiniteSets

\* ------------------------------------------------------------------ f32

\* One unit of the fixed-point representation of f32: 1.0 is SCALE.
SCALE == 10000

\* An f32 literal given in thousandths: F(125) is 0.125, F(-2500) is -2.5.
F(milli) == (milli * SCALE) \div 1000

Abs(a) == IF a < 0 THEN -a ELSE a

\* a / d for an integer d > 0, rounded to nearest.
RoundDiv(a, d) == a \div d + (IF 2 * (a % d) >= d THEN 1 ELSE 0)

\* f32 multiplication: a * b / SCALE rounded to nearest, computed from the
\* whole and the fractional parts of a and b so that no partial product
\* leaves 32 bits unless the result does.
FMul(a, b) ==
    LET ah == a \div SCALE
        al == a % SCALE
        bh == b \div SCALE
        bl == b % SCALE
    IN  ah * bh * SCALE + ah * bl + al * bh + RoundDiv(al * bl, SCALE)

\* The f32 infinity: a value beyond every finite one of the model.
Infinity == 100000 * SCALE

is_infinite(a) == Abs(a) >= Infinity

\* f32 division, a / b, of a > 0: IEEE gives an infinity for b = 0.  The
\* quotient is computed by long division, two decimal digits at a time
\* (SCALE is 100 * 100), and rounded to nearest; |b| is below 2000 * SCALE.
FDiv(a, b) ==
    IF b = 0 THEN Infinity
    ELSE LET n == IF b > 0 THEN a ELSE -a
             d == Abs(b)
             r0 == n % d
             r1 == (r0 * 100) % d
             r2 == (r1 * 100) % d
         IN  (n \div d) * SCALE + ((r0 * 100) \div d) * 100 + (r1 * 100) \div d
                + (IF 2 * r2 >= d THEN 1 ELSE 0)

\* `i as f32` for a small index i.
AsF32(i) == i * SCALE

\* Products are kept exactly, as the digits of base SCALE of a natural
\* number, the lowest first: << d0, d1, .. >> is d0 + d1 * SCALE + .. in
\* units of 1 / SCALE^2.  WCarry brings every digit below SCALE.
RECURSIVE WCarry(_, _)
WCarry(digits, carry) ==
    IF digits = << >> THEN << >>
    ELSE LET t == Head(digits) + carry
         IN  << t % SCALE >> \o WCarry(Tail(digits), t \div SCALE)

\* The digits of m * m, m >= 0, before the carries.
WSquare(m) ==
    LET d0 == m % SCALE
        d1 == (m \div SCALE) % SCALE
        d2 == m \div (SCALE * SCALE)
    IN  << d0 * d0, 2 * d0 * d1, 2 * d0 * d2 + d1 * d1, 2 * d1 * d2, d2 * d2, 0 >>

\* The digits of a value m >= 0 taken as a product, m * 1.0.
WValue(m) ==
    << 0, m % SCALE, (m \div SCALE) % SCALE, m \div (SCALE * SCALE), 0, 0 >>

WAdd(x, y) == [k \in 1 .. 6 |-> x[k] + y[k]]

\* x <= y, of digits after the carries, from the highest digit down.
RECURSIVE WLeq(_, _)
WLeq(x, y) ==
    IF x = << >> THEN TRUE
    ELSE LET n == Len(x)
         IN  IF x[n] # y[n] THEN x[n] < y[n]
             ELSE WLeq(SubSeq(x, 1, n - 1), SubSeq(y, 1, n - 1))

\* The largest r in lo..hi with r * r <= q (bisection; lo * lo <= q).
RECURSIVE IRoot(_, _, _)
IRoot(q, lo, hi) ==
    IF lo >= hi THEN lo
    ELSE LET mid == lo + (hi - lo + 1) \div 2
         IN  IF WLeq(WCarry(WSquare(mid), 0), q) THEN IRoot(q, mid, hi)
             ELSE IRoot(q, lo, mid - 1)

\* The square root of an exact product q (digits before the carries),
\* rounded to nearest: r + 1 when q > r * r + r.  The root is a value of
\* the model, below 2^31.
WRoot(q) ==
    LET n == WCarry(q, 0)
        r == IRoot(n, 0, 2147483646)
        r0 == r % SCALE
        r1 == (r \div SCALE) % SCALE
        r2 == r \div (SCALE * SCALE)
    IN  IF WLeq(n, WCarry(WAdd(WSquare(r), << r0, r1, r2, 0, 0, 0 >>), 0)) THEN r
        ELSE r + 1

\* f32::sqrt of a >= 0, rounded to nearest.
FSqrt(a) == WRoot(WValue(a))

\* std::f32::consts
PI == 31416
FRAC_PI_2 == 15708

\* std::f32::consts::PI is 3.14159274: PI with its four digits below the
\* grid, as digits of base SCALE, the lowest first.
PI_DIGITS == << 9274, 31415 >>

\* The exact product of a value n >= 0 and a factor given by its digits
\* << c0, c1 >>: the digits of the product before the carries, its unit
\* 1 / SCALE^3.
WTimes(n, c) ==
    LET n0 == n % SCALE
        n1 == (n \div SCALE) % SCALE
        n2 == n \div (SCALE * SCALE)
    IN  << n0 * c[1], n1 * c[1] + n0 * c[2], n2 * c[1] + n1 * c[2], n2 * c[2],
           0, 0 >>

\* The digits (after the carries) of the whole quotient by a small den,
\* from the highest digit down.
RECURSIVE WDiv(_, _, _)
WDiv(digits, den, rem) ==
    IF digits = << >> THEN << >>
    ELSE LET n == Len(digits)
             t == rem * SCALE + digits[n]
         IN  WDiv(SubSeq(digits, 1, n - 1), den, t % den) \o << t \div den >>

\* A product in units of 1 / SCALE^3 rounded to the nearest value.
WRound(q) ==
    q[3] + q[4] * SCALE + q[5] * SCALE * SCALE
        + (IF 2 * (q[2] * SCALE + q[1]) >= SCALE * SCALE THEN 1 ELSE 0)

\* The f32 product of a / 2^k and a factor c >= 0 given by its digits.  A
\* product by a power of two is exact in f32, so a / den is held exactly
\* and the product is rounded once.
FMulExact(a, den, c) ==
    LET q == WRound(WDiv(WCarry(WTimes(Abs(a), c), 0), den, 0))
    IN  IF a < 0 THEN -q ELSE q

\* cos and sin are correct to the last bit of an f32: they are computed
\* here with two more decimal digits than the grid has, in units of
\* 1 / (SCALE * GUARD), and rounded to the grid at the end.
GUARD == 100

\* PI in those units.
FinePI == PI_DIGITS[2] * GUARD + RoundDiv(PI_DIGITS[1], SCALE \div GUARD)

\* a * b in those units, rounded to nearest, from the halves of a and b.
FineMul(a, b) ==
    LET m == 1000
        ah == a \div m
        al == a % m
        bh == b \div m
        bl == b % m
        t == ah * bl + al * bh
    IN  ah * bh + t \div m + RoundDiv((t % m) * m + al * bl, m * m)

\* The angle less the whole turns in it, in [-PI, PI] and in the finer
\* units.  cos and sin take the turns out by 2 * pi = 6.28318531, which is
\* 62831 units of the grid and 0.8531 of one.
ReduceAngle(a) ==
    LET Rest(k) == (a - k * 62831) * GUARD - RoundDiv(k * 8531, SCALE \div GUARD)
        k0 == a \div (2 * PI)
        k == IF Rest(k0) > FinePI THEN k0 + 1 ELSE k0
    IN  Rest(k)

\* The alternating power series sum of term, -term*x2/((n+1)(n+2)), ...
\* up to the fifteenth power, beyond which a term is below the resolution.
RECURSIVE Series(_, _, _)
Series(x2, term, n) ==
    IF n > 15 \/ term = 0 THEN 0
    ELSE term + Series(x2, -RoundDiv(FineMul(term, x2), (n + 1) * (n + 2)), n + 2)

\* cos and sin on [-PI/2, PI/2], in the finer units.
CosSeries(x) == Series(FineMul(x, x), SCALE * GUARD, 0)
SinSeries(x) == Series(FineMul(x, x), x, 1)

\* f32::cos
FCos(a) ==
    LET x == ReduceAngle(a)
    IN  RoundDiv(IF Abs(x) <= FinePI \div 2 THEN CosSeries(x)
                 ELSE -CosSeries(FinePI - Abs(x)), GUARD)

\* f32::sin
FSin(a) ==
    LET x == ReduceAngle(a)
    IN  RoundDiv(IF Abs(x) <= FinePI \div 2 THEN SinSeries(x)
                 ELSE IF x > 0 THEN SinSeries(FinePI - x)
                 ELSE SinSeries(-FinePI - x), GUARD)

\* ------------------------------------------------------------ vectors

scale(a, s) == << FMul(a[1], s), FMul(a[2], s), FMul(a[3], s) >>

negate(a) == scale(a, F(-1000))

add(a, b) == << a[1] + b[1], a[2] + b[2], a[3] + b[3] >>

subtract(a, b) == add(a, negate(b))

midpoint(a, b) == scale(add(a, b), F(500))

\* The largest magnitude among the components of a.
MaxAbs(a) ==
    LET m == IF Abs(a[1]) > Abs(a[2]) THEN Abs(a[1]) ELSE Abs(a[2])
    IN  IF m > Abs(a[3]) THEN m ELSE Abs(a[3])

\* a[0] * a[0] + a[1] * a[1] + a[2] * a[2], kept exactly.
SumSquares(a) ==
    WAdd(WAdd(WSquare(Abs(a[1])), WSquare(Abs(a[2]))), WSquare(Abs(a[3])))

\* The root is taken of the exact sum of the squares, so that a short
\* vector keeps its length as it does in f32.
length(a) == WRoot(SumSquares(a))

\* The decimal exponent at which f32 would hold a vector whose largest
\* component is m: the digits to drop (m above 200), or to add (m up to
\* 20), to bring m between 20 and 200.
RECURSIVE DigitsDown(_)
DigitsDown(m) == IF m <= 200 * SCALE THEN 0 ELSE 1 + DigitsDown(m \div 10)

RECURSIVE DigitsUp(_)
DigitsUp(m) == IF m = 0 \/ m > 20 * SCALE THEN 0 ELSE 1 + DigitsUp(m * 10)

\* a with its exponent taken out: normalize does not depend on it, and the
\* length of what is left has the relative precision f32 gives it.
Mantissa(a) ==
    LET m == MaxAbs(a)
        down == 10 ^ DigitsDown(m)
        up == 10 ^ DigitsUp(m)
    IN  << RoundDiv(a[1], down) * up, RoundDiv(a[2], down) * up,
           RoundDiv(a[3], down) * up >>

\* The assert! of normalize: it panics when the inverse length is infinite,
\* which is when the length is zero.
normalize_panics(a) ==
    LET inverse_length == FDiv(F(1000), length(Mantissa(a)))
    IN  is_infinite(inverse_length)

\* normalize, where its assert! passes: scale(a, 1.0 / length(a)), each
\* component divided by the length at the vector's own exponent.
normalize(a) ==
    LET v == Mantissa(a)
        len == length(v)
    IN  << FDiv(v[1], len), FDiv(v[2], len), FDiv(v[3], len) >>

mix_by_angle(i, j, angle) == add(scale(i, FCos(angle)), scale(j, FSin(angle)))

unit_at_angle(angle) == << FCos(angle), FSin(angle), F(0) >>

\* ---------------------------------------------------------------- Vane

\* struct Vane
Vane(tip, base_midpt, base_radius, base_unit_i, base_unit_j, spin) ==
    [ tip |-> tip, base_midpt |-> base_midpt, base_radius |-> base_radius,
      base_unit_i |-> base_unit_i, base_unit_j |-> base_unit_j, spin |-> spin ]

\* enum Face
Face == { "Front", "Back" }

\* Faulty variant: both faces in the order of the front face.
CornersSameOrder(self, face) ==
    LET unit_towards_corner ==
            mix_by_angle(self.base_unit_i, self.base_unit_j, self.spin)
        base_midpt_to_corner == scale(unit_towards_corner, self.base_radius)
        corner1 == add(self.base_midpt, base_midpt_to_corner)
        corner2 == subtract(self.base_midpt, base_midpt_to_corner)
    IN  << self.tip, corner1, corner2 >>

\* Vane::corners
corners(self, face) ==
    LET unit_towards_corner ==
            mix_by_angle(self.base_unit_i, self.base_unit_j, self.spin)
        base_midpt_to_corner == scale(unit_towards_corner, self.base_radius)
        corner1 == add(self.base_midpt, base_midpt_to_corner)
        corner2 == subtract(self.base_midpt, base_midpt_to_corner)
    IN  IF face = "Front" THEN << self.tip, corner1, corner2 >>
        ELSE << self.tip, corner2, corner1 >>

\* Faulty variant: the quarter turn taken the other way.
NormalQuarterTurnBack(self, face) ==
    LET n == mix_by_angle(self.base_unit_i, self.base_unit_j,
                          self.spin - FRAC_PI_2)
    IN  IF face = "Front" THEN n ELSE negate(n)

\* Vane::normal
normal(self, face) ==
    LET n == mix_by_angle(self.base_unit_i, self.base_unit_j,
                          self.spin + FRAC_PI_2)
    IN  IF face = "Front" THEN n ELSE negate(n)

\* Vane::texture_corners
texture_corners(self, face) ==
    IF face = "Front"
    THEN << << F(500), F(50) >>, << F(950), F(950) >>, << F(50), F(950) >> >>
    ELSE << << F(500), F(50) >>, << F(50), F(950) >>, << F(950), F(950) >> >>

\* struct Vertex
Vertex(position, norm, texture) ==
    [ position |-> position, normal |-> norm, texture |-> texture ]

\* fn vane, inside main: the vane of a windmill at pt whose tip points at
\* `angle`.
vane(pt, angle) ==
    LET inner_radius == F(250)
        outer_radius == F(500)
        unit_tip == unit_at_angle(angle)
        unit1 == unit_at_angle(angle + FDiv(FMul(PI, F(7000)), F(6000)))
        unit2 == unit_at_angle(angle + FDiv(FMul(PI, F(5000)), F(6000)))
        tip == scale(unit_tip, inner_radius)
        corner1 == scale(unit1, outer_radius)
        corner2 == scale(unit2, outer_radius)
        base_midpt == midpoint(corner1, corner2)
        base_midpt_to_corner1 == subtract(corner1, base_midpt)
    IN  Vane(add(pt, tip), add(pt, base_midpt), length(base_midpt_to_corner1),
             normalize(base_midpt_to_corner1), << F(0), F(0), F(1000) >>, F(0))

\* The assert! that vane reaches through normalize.
vane_panics(pt, angle) ==
    LET corner1 == scale(unit_at_angle(angle + FDiv(FMul(PI, F(7000)), F(6000))),
                         F(500))
        corner2 == scale(unit_at_angle(angle + FDiv(FMul(PI, F(5000)), F(6000))),
                         F(500))
    IN  normalize_panics(subtract(corner1, midpoint(corner1, corner2)))

\* The placement (point, angle) of each vane of `let mut vanes = [...]`,
\* by index: two windmills of three vanes.
Placement ==
    LET origin == << F(0), F(0), F(0) >>
        distant == << F(1000), F(1000), F(-2500) >>
        third == FDiv(FMul(PI, F(2000)), F(3000))
        two_thirds == FDiv(FMul(PI, F(4000)), F(3000))
    IN  [ n \in 0 .. 5 |->
            << IF n < 3 THEN origin ELSE distant,
               CASE n % 3 = 0 -> F(0) [] n % 3 = 1 -> third [] OTHER -> two_thirds >> ]

\* let mut vanes = [ vane(..), .. ]
Scene == [ n \in DOMAIN Placement |-> vane(Placement[n][1], Placement[n][2]) ]

\* ------------------------------------------------------- main: helpers

\* Position k (from 0) of a Vec or slice.
At(v, k) == v[k + 1]

\* v[lo..hi] panics when lo > hi or hi > v.len().
slice_panics(v, lo, hi) == lo > hi \/ hi > Len(v)

\* v[lo..hi], a slice of a Vec, where it does not panic.
Slice(v, lo, hi) == SubSeq(v, lo + 1, hi)

\* Duration::as_secs and Duration::subsec_nanos of a duration held in
\* milliseconds.
as_secs(d) == d \div 1000
subsec_nanos(d) == (d % 1000) * 1000000

\* frame_time.as_secs() as f32 + (frame_time.subsec_nanos() as f32 * 1e-9)
Seconds(frame_time) ==
    AsF32(as_secs(frame_time))
        + RoundDiv(subsec_nanos(frame_time), 1000000000 \div SCALE)

\* let spin = seconds * 0.125 * 2.0 * PI;
\* seconds * 0.125 * 2.0 is seconds / 4, exactly; the product by PI rounds.
BaseSpin(seconds) == FMulExact(seconds, 4, PI_DIGITS)

\* Faulty variant: the half rate starting one vane late.
VaneSpinDistantFrom4(base, n) ==
    FMul(base, IF n >= 4 THEN F(500) ELSE F(1000)) + AsF32(n)

\* The body of the first loop: the spin given to the vane at index n.
VaneSpin(base, n) ==
    FMul(base, IF n >= 3 THEN F(500) ELSE F(1000)) + AsF32(n)

\* Faulty variant: the write also disturbs base_radius.
WriteSpinAndRadius(vs, n, s) ==
    [ vs EXCEPT ![n].spin = s, ![n].base_radius = FMul(vs[n].base_radius, F(1000)) + 1 ]

\* vane.spin = ...: the assignment through iter_mut().
WriteSpin(vs, n, s) == [ vs EXCEPT ![n].spin = s ]

\* Faulty variant: the loop stops after the first windmill.
SpinLoopHasOnlyThree(vs, n) == n < 3

\* Whether vanes.iter_mut().enumerate() still yields an item at index n.
SpinLoopHas(vs, n) == n < Cardinality(DOMAIN vs)

\* corners(face).iter().zip(texture_corners(face).iter()).map(..): the
\* three vertices of one face.
FaceVertices(v, face) ==
    LET cs == corners(v, face)
        ts == texture_corners(v, face)
        nm == normal(v, face)
    IN  [ k \in 1 .. (IF Len(cs) < Len(ts) THEN Len(cs) ELSE Len(ts)) |->
            Vertex(cs[k], nm, ts[k]) ]

\* Faulty variant: the items are put before the list.
ExtendAtFront(vs, items) == items \o vs

\* vertices.extend(..)
Extend(vs, items) == vs \o items

\* The vertex range and the vane count written into the border code.
FrontBlockEnd == 18
BorderVanes == 6

\* Faulty variant: the slice taken from the back block.
BorderSliceOfBackBlock(vs) == Slice(vs, FrontBlockEnd, 2 * FrontBlockEnd)

\* &vertices[0..18]
BorderSlice(vs) == Slice(vs, 0, FrontBlockEnd)

\* A u16 result that has wrapped around, as in a build without overflow
\* checks.
U16(x) == x % 65536

\* Whether n * 3, i + 1 or i + 2 overflows u16 in the closure of flat_map:
\* a build with overflow checks panics there, one without them wraps.
border_edges_overflow(n) == n * 3 + 2 > 65535

\* Faulty variant: the corners of the triangle, not its edges.
BorderEdgesAsTriangle(n) ==
    LET i == U16(n * 3)
    IN  << i, U16(i + 1), U16(i + 2), i, U16(i + 1), U16(i + 2) >>

\* The closure of flat_map: the three edges of triangle n (where the
\* arithmetic overflows, the value of a build without overflow checks).
BorderEdges(n) ==
    LET i == U16(n * 3)
    IN  << i, U16(i + 1), U16(i + 1), U16(i + 2), U16(i + 2), i >>

\* (lo..hi).flat_map(..).collect()
RECURSIVE FlatMapEdges(_, _)
FlatMapEdges(lo, hi) ==
    IF lo >= hi THEN << >> ELSE BorderEdges(lo) \o FlatMapEdges(lo + 1, hi)

\* Faulty variant: any other event sets the flag again.
OnEventReopens(open, event) == event # "Closed"

\* The closure given to poll_events, applied to one event.
OnEvent(open, event) == IF event = "Closed" THEN FALSE ELSE open

\* events_loop.poll_events(..): the closure applied to each pending event.
RECURSIVE PollEventsFold(_, _)
PollEventsFold(open, events) ==
    IF events = << >> THEN open
    ELSE PollEventsFold(OnEvent(open, Head(events)), Tail(events))

\* The `?` operator: where main goes on Ok and on Err.
QuestionMark(ok, next, call) ==
    IF ok THEN [ pc |-> next, result |-> [ state |-> "running", error |-> "none" ] ]
    ELSE [ pc |-> "returned", result |-> [ state |-> "Err", error |-> call ] ]

\* `while window_open`
LoopCondition(open) == open

\* ------------------------------------------------------------- bounds

\* The clock advances by whole ticks of TickMillis milliseconds, at most
\* MaxTicks of them; one poll delivers at most MaxEvents events.
TickMillis == 750
MaxTicks == 6
MaxEvents == 2

\* The geometry is queried at the spins k * SpinSampleStep, |k| <= MaxSpinSteps.
SpinSampleStep == 1000
MaxSpinSteps == 70

SpinSamples == { k * SpinSampleStep : k \in -MaxSpinSteps .. MaxSpinSteps }

Events == { "Closed", "Other" }

EventBatches == UNION { [ 1 .. n -> Events ] : n \in 0 .. MaxEvents }

\* -------------------------------------------------------------- state

VARIABLES
    pc,                   \* where main is
    result,               \* what main returned
    clock,                \* Instant::now(), in milliseconds
    start_time,
    vanes,
    window_open,
    seconds,
    spin,
    frame,                \* the Frame of display.draw() and the draws given to it
    vertices,
    i,                    \* the index of the running for loop
    vertex_buffer,
    border_vertex_buffer,
    indices,
    border_index_buffer,
    polled,               \* the events the running poll_events delivered
    spin_writes,          \* history: assignments to each vane's spin this frame
    reported,             \* what the last collaborator call reported
    query                 \* a vane, a spin and the geometry computed for them

vars == << pc, result, clock, start_time, vanes, window_open, seconds, spin,
           frame, vertices, i, vertex_buffer, border_vertex_buffer, indices,
           border_index_buffer, polled, spin_writes, reported, query >>

frame_locals == << seconds, spin, frame, vertices, i, vertex_buffer,
                   border_vertex_buffer, indices, border_index_buffer >>

NoQuery == [ stage |-> "none" ]

Running == [ state |-> "running", error |-> "none" ]

Init ==
    /\ pc = "display_new"
    /\ result = Running
    /\ clock = 0
    /\ start_time = 0
    /\ vanes = << >>
    /\ window_open = FALSE
    /\ seconds = 0
    /\ spin = 0
    /\ frame = [ state |-> "none", draws |-> << >> ]
    /\ vertices = << >>
    /\ i = 0
    /\ vertex_buffer = << >>
    /\ border_vertex_buffer = << >>
    /\ indices = << >>
    /\ border_index_buffer = << >>
    /\ polled = << >>
    /\ spin_writes = << >>
    /\ reported = "none"
    /\ query = NoQuery

Reported(ok) == IF ok THEN "Ok" ELSE "Err"

\* The return of `?` drops the locals of main, and with them the Frame f
\* of the running frame, if there is one.  The Drop of glium's Frame
\* asserts that finish() was called on it, and main panics instead of
\* returning the error; a build of the library without that assertion
\* drops the Frame silently.
DropFrame(q, f, asserting) ==
    IF q.pc = "returned" /\ f.state = "open" /\ asserting
    THEN [ pc |-> "panicked", result |-> Running ]
    ELSE q

\* A call of a collaborator followed by `?`: it succeeds or fails, and on
\* failure main is left with the Frame f in its locals.
Fallible(at, next, f) ==
    /\ pc = at
    /\ \E ok \in BOOLEAN, asserting \in BOOLEAN :
          LET q == DropFrame(QuestionMark(ok, next, at), f, asserting)
          IN  pc' = q.pc /\ result' = q.result /\ reported' = Reported(ok)
    /\ UNCHANGED query

\* ---------------------------------------------------------- main: setup

DisplayNew ==
    /\ Fallible("display_new", "interiors_program", frame)
    /\ UNCHANGED << clock, start_time, vanes, window_open, frame_locals, polled,
                    spin_writes >>

InteriorsProgram ==
    /\ Fallible("interiors_program", "borders_program", frame)
    /\ UNCHANGED << clock, start_time, vanes, window_open, frame_locals, polled,
                    spin_writes >>

BordersProgram ==
    /\ Fallible("borders_program", "vane_texture", frame)
    /\ UNCHANGED << clock, start_time, vanes, window_open, frame_locals, polled,
                    spin_writes >>

BuildVaneTexture ==
    /\ Fallible("vane_texture", "make_vanes", frame)
    /\ UNCHANGED << clock, start_time, vanes, window_open, frame_locals, polled,
                    spin_writes >>

\* let mut vanes = [..]; let start_time = Instant::now(); let mut window_open = true;
MakeVanes ==
    /\ pc = "make_vanes"
    /\ IF \E n \in DOMAIN Placement : vane_panics(Placement[n][1], Placement[n][2])
       THEN /\ pc' = "panicked"
            /\ UNCHANGED << vanes, start_time, window_open, spin_writes >>
       ELSE /\ pc' = "loop"
            /\ vanes' = Scene
            /\ start_time' = clock
            /\ window_open' = TRUE
            /\ spin_writes' = [ n \in DOMAIN Scene |-> 0 ]
    /\ UNCHANGED << result, clock, frame_locals, polled >>
    /\ UNCHANGED << reported, query >>

\* ----------------------------------------------------------- main: loop

\* while window_open { .. } Ok(())
LoopTest ==
    /\ pc = "loop"
    /\ IF LoopCondition(window_open)
       THEN pc' = "frame_time" /\ UNCHANGED result
       ELSE pc' = "returned" /\ result' = [ state |-> "Ok", error |-> "none" ]
    /\ polled' = << >>
    /\ UNCHANGED << clock, start_time, vanes, window_open, frame_locals,
                    spin_writes >>
    /\ UNCHANGED << reported, query >>

\* let frame_time = Instant::now() - start_time; let seconds = ..; let spin = ..;
FrameTime ==
    /\ pc = "frame_time"
    /\ \E ticks \in 0 .. 2 :
          /\ clock + ticks * TickMillis <= MaxTicks * TickMillis
          /\ clock' = clock + ticks * TickMillis
    /\ seconds' = Seconds(clock' - start_time)
    /\ spin' = BaseSpin(seconds')
    /\ spin_writes' = [ n \in DOMAIN vanes |-> 0 ]
    /\ pc' = "frame_draw"
    /\ UNCHANGED << result, start_time, vanes, window_open, frame, vertices, i,
                    vertex_buffer, border_vertex_buffer, indices,
                    border_index_buffer, polled >>
    /\ UNCHANGED << reported, query >>

\* let mut frame = display.draw(); frame.clear_color_and_depth(..);
\* let mut vertices = Vec::new();
FrameDraw ==
    /\ pc = "frame_draw"
    /\ frame' = [ state |-> "open", draws |-> << >> ]
    /\ vertices' = << >>
    /\ i' = 0
    /\ pc' = "spin_loop"
    /\ UNCHANGED << result, clock, start_time, vanes, window_open, seconds, spin,
                    vertex_buffer, border_vertex_buffer, indices,
                    border_index_buffer, polled, spin_writes >>
    /\ UNCHANGED << reported, query >>

\* for (i, vane) in vanes.iter_mut().enumerate() { .. }
SpinStep ==
    /\ pc = "spin_loop"
    /\ IF SpinLoopHas(vanes, i)
       THEN /\ vanes' = WriteSpin(vanes, i, VaneSpin(spin, i))
            /\ spin_writes' = [ spin_writes EXCEPT ![i] = @ + 1 ]
            /\ i' = i + 1
            /\ pc' = pc
       ELSE /\ i' = 0
            /\ pc' = "front_loop"
            /\ UNCHANGED << vanes, spin_writes >>
    /\ UNCHANGED << result, clock, start_time, window_open, seconds, spin, frame,
                    vertices, vertex_buffer, border_vertex_buffer, indices,
                    border_index_buffer, polled >>
    /\ UNCHANGED << reported, query >>

\* for vane in &vanes { .. Face::Front .. }
FrontStep ==
    /\ pc = "front_loop"
    /\ IF i < Cardinality(DOMAIN vanes)
       THEN /\ vertices' = Extend(vertices, FaceVertices(vanes[i], "Front"))
            /\ i' = i + 1
            /\ pc' = pc
       ELSE /\ i' = 0
            /\ pc' = "back_loop"
            /\ UNCHANGED vertices
    /\ UNCHANGED << result, clock, start_time, vanes, window_open, seconds, spin,
                    frame, vertex_buffer, border_vertex_buffer, indices,
                    border_index_buffer, polled, spin_writes >>
    /\ UNCHANGED << reported, query >>

\* for vane in &vanes { .. Face::Back .. }
BackStep ==
    /\ pc = "back_loop"
    /\ IF i < Cardinality(DOMAIN vanes)
       THEN /\ vertices' = Extend(vertices, FaceVertices(vanes[i], "Back"))
            /\ i' = i + 1
            /\ pc' = pc
       ELSE /\ i' = 0
            /\ pc' = "vertex_buffer"
            /\ UNCHANGED vertices
    /\ UNCHANGED << result, clock, start_time, vanes, window_open, seconds, spin,
                    frame, vertex_buffer, border_vertex_buffer, indices,
                    border_index_buffer, polled, spin_writes >>
    /\ UNCHANGED << reported, query >>

\* let vertex_buffer = VertexBuffer::new(&display, &vertices)?;
VertexBufferNew ==
    /\ Fallible("vertex_buffer", "draw_interiors", frame)
    /\ vertex_buffer' = IF pc' = "draw_interiors" THEN vertices ELSE vertex_buffer
    /\ UNCHANGED << clock, start_time, vanes, window_open, seconds, spin, frame,
                    vertices, i, border_vertex_buffer, indices,
                    border_index_buffer, polled, spin_writes >>

\* frame.draw(&vertex_buffer, &NoIndices(TrianglesList), ..)?;
DrawInteriors ==
    /\ Fallible("draw_interiors", "border_vertex_buffer", frame)
    /\ frame' = IF pc' # "border_vertex_buffer" THEN frame
                ELSE [ frame EXCEPT !.draws =
                         Append(@, [ program |-> "vane_interiors",
                                     primitive |-> "TrianglesList",
                                     vertices |-> vertex_buffer,
                                     indexed |-> FALSE,
                                     indices |-> << >> ]) ]
    /\ UNCHANGED << clock, start_time, vanes, window_open, seconds, spin,
                    vertices, i, vertex_buffer, border_vertex_buffer, indices,
                    border_index_buffer, polled, spin_writes >>

\* let border_vertex_buffer = VertexBuffer::new(&display, &vertices[0..18])?;
BorderVertexBufferNew ==
    /\ pc = "border_vertex_buffer"
    /\ IF slice_panics(vertices, 0, FrontBlockEnd)
       THEN /\ pc' = "panicked"
            /\ UNCHANGED << result, border_vertex_buffer, reported >>
       ELSE /\ \E ok \in BOOLEAN, asserting \in BOOLEAN :
                  LET q == DropFrame(QuestionMark(ok, "indices", pc), frame,
                                     asserting)
                  IN  pc' = q.pc /\ result' = q.result /\ reported' = Reported(ok)
            /\ border_vertex_buffer' =
                  IF pc' = "indices" THEN BorderSlice(vertices)
                  ELSE border_vertex_buffer
    /\ UNCHANGED << clock, start_time, vanes, window_open, seconds, spin, frame,
                    vertices, i, vertex_buffer, indices, border_index_buffer,
                    polled, spin_writes >>
    /\ UNCHANGED query

\* let indices: Vec<u16> = (0..6).flat_map(..).collect();
BuildIndices ==
    /\ pc = "indices"
    /\ \E checked \in BOOLEAN :
          IF checked /\ \E n \in 0 .. BorderVanes - 1 : border_edges_overflow(n)
          THEN pc' = "panicked" /\ UNCHANGED indices
          ELSE pc' = "border_index_buffer"
               /\ indices' = FlatMapEdges(0, BorderVanes)
    /\ UNCHANGED << result, clock, start_time, vanes, window_open, seconds, spin,
                    frame, vertices, i, vertex_buffer, border_vertex_buffer,
                    border_index_buffer, polled, spin_writes >>
    /\ UNCHANGED << reported, query >>

\* let border_index_buffer = IndexBuffer::new(&display, LinesList, &indices)?;
BorderIndexBufferNew ==
    /\ Fallible("border_index_buffer", "draw_borders", frame)
    /\ border_index_buffer' =
          IF pc' = "draw_borders" THEN indices ELSE border_index_buffer
    /\ UNCHANGED << clock, start_time, vanes, window_open, seconds, spin, frame,
                    vertices, i, vertex_buffer, border_vertex_buffer, indices,
                    polled, spin_writes >>

\* frame.draw(&border_vertex_buffer, &border_index_buffer, ..)?;
DrawBorders ==
    /\ Fallible("draw_borders", "finish", frame)
    /\ frame' = IF pc' # "finish" THEN frame
                ELSE [ frame EXCEPT !.draws =
                         Append(@, [ program |-> "vane_borders",
                                     primitive |-> "LinesList",
                                     vertices |-> border_vertex_buffer,
                                     indexed |-> TRUE,
                                     indices |-> border_index_buffer ]) ]
    /\ UNCHANGED << clock, start_time, vanes, window_open, seconds, spin,
                    vertices, i, vertex_buffer, border_vertex_buffer, indices,
                    border_index_buffer, polled, spin_writes >>

\* frame.finish()?;  finish(self) takes the Frame: it is finished, and no
\* longer main's to drop, whether the swap succeeds or fails.
Finish ==
    /\ Fallible("finish", "poll_events", [ frame EXCEPT !.state = "finished" ])
    /\ frame' = [ frame EXCEPT !.state = "finished" ]
    /\ UNCHANGED << clock, start_time, vanes, window_open, seconds, spin,
                    vertices, i, vertex_buffer, border_vertex_buffer, indices,
                    border_index_buffer, polled, spin_writes >>

\* events_loop.poll_events(|event| ..); then back to the loop's test.
PollEvents ==
    /\ pc = "poll_events"
    /\ \E events \in EventBatches :
          /\ polled' = events
          /\ window_open' = PollEventsFold(window_open, events)
    /\ pc' = "loop"
    /\ UNCHANGED << result, clock, start_time, vanes, frame_locals, spin_writes >>
    /\ UNCHANGED << reported, query >>

Next ==
    \/ DisplayNew
    \/ InteriorsProgram
    \/ BordersProgram
    \/ BuildVaneTexture
    \/ MakeVanes
    \/ LoopTest
    \/ FrameTime
    \/ FrameDraw
    \/ SpinStep
    \/ FrontStep
    \/ BackStep
    \/ VertexBufferNew
    \/ DrawInteriors
    \/ BorderVertexBufferNew
    \/ BuildIndices
    \/ BorderIndexBufferNew
    \/ DrawBorders
    \/ Finish
    \/ PollEvents

Spec == Init /\ [][Next]_vars

\* ------------------------------------------- the geometry on its own

main_vars == << pc, result, clock, start_time, vanes, window_open, seconds,
                spin, frame, vertices, i, vertex_buffer, border_vertex_buffer,
                indices, border_index_buffer, polled, spin_writes, reported >>

\* A vane of the scene, as vane(..) built it, at any of the sampled spins.
InitGeom ==
    /\ pc = "display_new"
    /\ result = Running
    /\ clock = 0
    /\ start_time = 0
    /\ vanes = << >>
    /\ window_open = FALSE
    /\ seconds = 0
    /\ spin = 0
    /\ frame = [ state |-> "none", draws |-> << >> ]
    /\ vertices = << >>
    /\ i = 0
    /\ vertex_buffer = << >>
    /\ border_vertex_buffer = << >>
    /\ indices = << >>
    /\ border_index_buffer = << >>
    /\ polled = << >>
    /\ spin_writes = << >>
    /\ reported = "none"
    /\ \E n \in DOMAIN Scene, s \in SpinSamples :
          query = [ stage |-> "input", index |-> n,
                    self |-> [ Scene[n] EXCEPT !.spin = s ],
                    front |-> << >>, back |-> << >>,
                    normal_front |-> << >>, normal_back |-> << >> ]

\* self.corners(Face::Front) and self.corners(Face::Back)
QueryCorners ==
    /\ query.stage = "input"
    /\ query' = [ query EXCEPT !.stage = "corners",
                                !.front = corners(query.self, "Front"),
                                !.back = corners(query.self, "Back") ]
    /\ UNCHANGED main_vars

\* self.normal(Face::Front) and self.normal(Face::Back)
QueryNormal ==
    /\ query.stage = "corners"
    /\ query' = [ query EXCEPT !.stage = "done",
                                !.normal_front = normal(query.self, "Front"),
                                !.normal_back = normal(query.self, "Back") ]
    /\ UNCHANGED main_vars

NextGeom == QueryCorners \/ QueryNormal

SpecGeom == InitGeom /\ [][NextGeom]_vars

\* ------------------------------------------------------------- claims

\* The number of vanes of the scene (vane_count).
VaneCount == Cardinality(DOMAIN vanes)

\* The positions of main at which the frame's vertex list is complete.
Assembled == { "vertex_buffer", "draw_interiors", "border_vertex_buffer",
               "indices", "border_index_buffer", "draw_borders", "finish",
               "poll_events" }

\* Vertex k of the given face of the vane at index n, as the vane is now.
FaceVertex(n, face, k) ==
    Vertex(At(corners(vanes[n], face), k), normal(vanes[n], face),
           At(texture_corners(vanes[n], face), k))

\* The vertex at position p (from 0) of a frame's list, as the vanes are
\* now: the front block, then the back block.
VertexNow(p) ==
    IF p < 3 * VaneCount THEN FaceVertex(p \div 3, "Front", p % 3)
    ELSE FaceVertex((p - 3 * VaneCount) \div 3, "Back", p % 3)

\* The draws the frame was given with the named program.
DrawsOf(program) ==
    { frame.draws[d] : d \in { e \in DOMAIN frame.draws :
                                  frame.draws[e].program = program } }

Range(f) == { f[x] : x \in DOMAIN f }

\* The spin the animation gives the vane at index n, t seconds after the
\* start: base_spin(t) * rate(n) + n, base_spin(t) = t * 0.125 * 2 * pi.
ClaimedSpin(t, n) ==
    LET two_pi == << 8548, 62831 >>
        base_spin == FMulExact(t, 8, two_pi)
        rate == IF n >= 3 THEN F(500) ELSE F(1000)
    IN  FMul(base_spin, rate) + n * SCALE

\* The elapsed time of the running frame, in seconds.
Elapsed == RoundDiv((clock - start_time) * SCALE, 1000)

cross(a, b) ==
    << FMul(a[2], b[3]) - FMul(a[3], b[2]),
       FMul(a[3], b[1]) - FMul(a[1], b[3]),
       FMul(a[1], b[2]) - FMul(a[2], b[1]) >>

dot(a, b) == FMul(a[1], b[1]) + FMul(a[2], b[2]) + FMul(a[3], b[3])

\* Twice the area of the triangle cs seen from the side n points to,
\* positive when cs runs clockwise for that viewer (right-handed axes: a
\* counter-clockwise triangle has its cross product along n).
ClockwiseArea2(cs, n) ==
    -dot(cross(subtract(cs[2], cs[1]), subtract(cs[3], cs[1])), n)

\* A vane without its spin.
Shape(v) == [ tip |-> v.tip, base_midpt |-> v.base_midpt,
              base_radius |-> v.base_radius, base_unit_i |-> v.base_unit_i,
              base_unit_j |-> v.base_unit_j ]

Shapes(vs) == [ n \in DOMAIN vs |-> Shape(vs[n]) ]

\* The calls of a frame that can report a failure.
FrameCalls == { "vertex_buffer", "draw_interiors", "border_vertex_buffer",
                "border_index_buffer", "draw_borders", "finish" }

SetupCalls == { "display_new", "interiors_program", "borders_program",
                "vane_texture" }

\* C1: the vertex list given to the interior draw is the front block, the
\* three Front vertices of each vane in scene order, followed by the back
\* block, the three Back vertices of each vane in scene order: vertex k of
\* vane n's front face at position 3n+k, of its back face at position
\* 3*vane_count+3n+k, and 6*vane_count vertices in all, in every frame.
C1_VertexLayout ==
    /\ pc \in Assembled =>
          Len(vertices) = 6 * VaneCount
    /\ \A d \in DrawsOf("vane_interiors") :
          /\ ~d.indexed
          /\ d.vertices = vertices
          /\ Len(d.vertices) = 6 * VaneCount
          /\ \A n \in 0 .. VaneCount - 1, k \in 0 .. 2 :
                /\ At(d.vertices, 3 * n + k) = FaceVertex(n, "Front", k)
                /\ At(d.vertices, 3 * VaneCount + 3 * n + k)
                      = FaceVertex(n, "Back", k)

\* The interior draw of a frame that is not the first (the clock has moved
\* by more than one frame can move it).
C1_Witness ==
    /\ DrawsOf("vane_interiors") # {}
    /\ clock - start_time > 2 * TickMillis

\* C2: the border index list is, for each vane n in scene order with
\* b = 3n, the six indices b, b+1, b+1, b+2, b+2, b, and nothing else:
\* 6*vane_count indices, 36 for the scene of six vanes.
C2_BorderIndices ==
    LET Holds(ix) ==
            /\ Len(ix) = 6 * VaneCount
            /\ Len(ix) = 36
            /\ \A n \in 0 .. VaneCount - 1 :
                  LET b == 3 * n
                  IN  Slice(ix, 6 * n, 6 * n + 6)
                         = << b, b + 1, b + 1, b + 2, b + 2, b >>
    IN  /\ pc \in { "border_index_buffer", "draw_borders", "finish",
                    "poll_events" } => Holds(indices)
        /\ \A d \in DrawsOf("vane_borders") :
              d.indexed /\ d.primitive = "LinesList" /\ Holds(d.indices)

\* The border draw of a frame, with the index list it was given.
C2_Witness ==
    /\ pc = "finish"
    /\ \E d \in DrawsOf("vane_borders") : At(d.indices, 35) = 15

\* C3: every border index is below 3*vane_count, and the vertices given to
\* the border draw are the front block of the frame's vertex list,
\* unmodified: positions [0, 3*vane_count), each the Front vertex of its
\* vane, so that every index addresses a front-face vertex of the slice.
C3_BorderAddressesFrontBlock ==
    \A d \in DrawsOf("vane_borders") :
        /\ Len(d.vertices) = 3 * VaneCount
        /\ d.vertices = Slice(vertices, 0, 3 * VaneCount)
        /\ \A n \in 0 .. VaneCount - 1, k \in 0 .. 2 :
              At(d.vertices, 3 * n + k) = FaceVertex(n, "Front", k)
        /\ \A e \in DOMAIN d.indices :
              /\ d.indices[e] >= 0
              /\ d.indices[e] < 3 * VaneCount
              /\ d.indices[e] < Len(d.vertices)
              /\ \E n \in 0 .. VaneCount - 1, k \in 0 .. 2 :
                    At(d.vertices, d.indices[e]) = FaceVertex(n, "Front", k)
        /\ \A e \in DrawsOf("vane_interiors") :
              d.vertices = Slice(e.vertices, 0, 3 * VaneCount)

\* The border draw of a frame whose vanes have turned.
C3_Witness ==
    /\ pc = "poll_events"
    /\ clock > start_time
    /\ \E d \in DrawsOf("vane_borders") :
          At(d.vertices, 17) # At(vertices, 35)

\* C4: in every frame the spin of every vane is written exactly once, and
\* all the writes come before the frame's first vertex: while spins are
\* written the vertex list is empty, no spin is written during or after
\* the assembly, and every vertex of the frame is computed from the spin
\* written in that same frame.
C4_SpinBeforeAssembly ==
    /\ [](pc = "spin_loop" =>
            /\ vertices = << >>
            /\ \A n \in DOMAIN vanes :
                  spin_writes[n] = IF n < i THEN 1 ELSE 0)
    /\ [](pc \in { "front_loop", "back_loop" } \cup Assembled =>
            /\ \A n \in DOMAIN vanes : spin_writes[n] = 1
            /\ \A p \in 0 .. Len(vertices) - 1 : At(vertices, p) = VertexNow(p))
    /\ [][(pc \in { "front_loop", "back_loop" } \cup Assembled) =>
            (vanes' = vanes /\ spin_writes' = spin_writes)]_vars
    /\ [][(vertices' # vertices /\ vertices' # << >>) =>
            (\A n \in DOMAIN vanes :
                spin_writes[n] = 1 /\ vanes'[n] = vanes[n])]_vars

\* The back block being assembled in a frame that is not the first, the
\* spins written in it differing from those the scene was built with.
C4_Witness ==
    /\ pc = "back_loop"
    /\ i = 4
    /\ clock - start_time > 2 * TickMillis
    /\ Len(vertices) = 3 * VaneCount + 3 * i
    /\ \A n \in DOMAIN vanes : spin_writes[n] = 1 /\ vanes[n].spin # n * SCALE

\* C5: after the spin loop, the vane at index n has spin
\* base_spin(t) * rate(n) + n for the frame's elapsed time t, whatever its
\* spin was before; at t = 0 that is exactly n.
C5_SpinFormula ==
    /\ pc \in { "front_loop", "back_loop" } \cup Assembled =>
          \A n \in DOMAIN vanes :
              /\ vanes[n].spin = ClaimedSpin(Elapsed, n)
              /\ Elapsed = 0 => vanes[n].spin = n * SCALE
    /\ pc = "spin_loop" =>
          \A n \in 0 .. i - 1 : vanes[n].spin = ClaimedSpin(Elapsed, n)

\* The spins of a frame at t > 0 that follows a frame at another time.
C5_Witness ==
    /\ pc = "front_loop"
    /\ clock - start_time > 2 * TickMillis
    /\ vanes[5].spin > 5 * SCALE
    /\ vanes[2].spin - 2 * SCALE > vanes[5].spin - 5 * SCALE

\* C6: corners(vane, Front) and corners(vane, Back) are the same triangle in
\* opposite order: both start with the tip, and elements 1 and 2 of Front
\* are elements 2 and 1 of Back; the two base corners lie opposite each
\* other about base_midpt.
C6_FacesShareCorners ==
    query.stage \in { "corners", "done" } =>
        /\ At(query.front, 0) = query.self.tip
        /\ At(query.back, 0) = query.self.tip
        /\ At(query.front, 1) = At(query.back, 2)
        /\ At(query.front, 2) = At(query.back, 1)
        /\ add(At(query.front, 1), At(query.front, 2))
              = add(query.self.base_midpt, query.self.base_midpt)
        /\ At(query.front, 1) # At(query.front, 2)

\* Both faces of a distant vane computed at a spin that turns it out of
\* its plane.
C6_Witness ==
    /\ query.stage = "corners"
    /\ query.index = 4
    /\ query.self.spin = 3 * SpinSampleStep
    /\ At(query.front, 1)[3] # query.self.base_midpt[3]

\* C7: for every vane that vane(..) builds and every spin, the corners of
\* a face are in clockwise order seen from the side its normal points to:
\* the signed area along the normal is positive (never zero, never
\* negative), for the front face and for the back face.
C7_Winding ==
    query.stage = "done" =>
        /\ ClockwiseArea2(query.front, query.normal_front) > 0
        /\ ClockwiseArea2(query.back, query.normal_back) > 0

\* The winding computed for a vane turned by a negative spin.
C7_Witness ==
    /\ query.stage = "done"
    /\ query.index = 1
    /\ query.self.spin = -(5 * SpinSampleStep)
    /\ ClockwiseArea2(query.front, query.normal_front) > F(300)

\* C8: the close flag changes only where the events are polled, at the end
\* of a frame, and that frame has by then been assembled, drawn and
\* finished; once a poll has seen a close event no further frame starts and
\* main returns Ok; with no close event seen the loop starts the next frame.
C8_CloseAtFrameBoundary ==
    /\ [][window_open' # window_open => pc \in { "make_vanes", "poll_events" }]_vars
    /\ [](pc = "poll_events" =>
            /\ window_open
            /\ frame.state = "finished"
            /\ Len(vertices) = 6 * VaneCount
            /\ DrawsOf("vane_interiors") # {}
            /\ DrawsOf("vane_borders") # {})
    /\ [][pc = "poll_events" =>
            /\ pc' = "loop"
            /\ window_open' = ("Closed" \notin Range(polled'))]_vars
    /\ [][pc = "loop" =>
            IF window_open THEN pc' = "frame_time" /\ result' = Running
            ELSE pc' = "returned" /\ result'.state = "Ok"]_vars
    /\ [](~window_open => pc \notin { "frame_time", "frame_draw", "spin_loop",
                                      "front_loop", "back_loop" } \cup Assembled)
    /\ [][~window_open /\ pc \in { "loop", "returned" } => ~window_open']_vars

\* main having returned Ok after the poll of a finished, later frame saw a
\* close event.
C8_Witness ==
    /\ pc = "returned"
    /\ result.state = "Ok"
    /\ ~window_open
    /\ frame.state = "finished"
    /\ clock > start_time

\* C9: after any number of frames the scene is as it was built except for
\* the spins: the same vanes in the same order, each with the tip,
\* base_midpt, base_radius, base_unit_i and base_unit_j of its construction;
\* the assembly and the draws change no field of a vane, spin included.
C9_OnlySpinChanges ==
    /\ [][pc # "make_vanes" => Shapes(vanes') = Shapes(vanes)]_vars
    /\ [](pc \notin { "display_new", "interiors_program", "borders_program",
                      "vane_texture", "make_vanes" } /\ VaneCount > 0 =>
            /\ DOMAIN vanes = DOMAIN Placement
            /\ \A n \in DOMAIN vanes :
                  Shape(vanes[n]) = Shape(vane(Placement[n][1], Placement[n][2])))
    /\ [][pc \notin { "make_vanes", "spin_loop" } => vanes' = vanes]_vars

\* The scene after more than one frame, every spin changed.
C9_Witness ==
    /\ pc = "poll_events"
    /\ clock - start_time > 2 * TickMillis
    /\ \A n \in DOMAIN vanes : vanes[n].spin # n * SCALE
    /\ VaneCount = 6

\* C10: a failure a collaborator reports during a frame is not recovered
\* or retried: main returns that error at once, the remaining steps of the
\* frame do not run (nothing more is drawn, the events are not polled, the
\* close flag is not touched) and no further frame starts.
C10_FailureEndsMain ==
    /\ [][reported' = "Err" /\ pc \in FrameCalls \cup SetupCalls =>
            /\ pc' = "returned"
            /\ result' = [ state |-> "Err", error |-> pc ]
            /\ frame'.draws = frame.draws
            /\ polled' = polled
            /\ window_open' = window_open
            /\ vanes' = vanes]_vars
    /\ [][(pc \in FrameCalls \cup SetupCalls) => reported' \in { "Ok", "Err" }]_vars
    /\ [][pc # "returned"]_vars
    /\ [](result.state = "Err" <=> pc = "returned" /\ reported = "Err")
    /\ [](result.state = "Err" /\ result.error \in FrameCalls =>
            /\ polled = << >>
            /\ window_open)

\* main having panicked in the drop of the Frame of the second frame, with
\* the error of the border draw lost.
C10_Witness ==
    /\ pc = "panicked"
    /\ reported = "Err"
    /\ result = Running
    /\ frame.state = "open"
    /\ Len(frame.draws) = 1
    /\ clock > start_time

====
